---- MODULE Spec2Model ----
(***************************************************************************)
(* quartz_nbt: the binary NBT reader (src/read.rs) and the error types of  *)
(* the typed-representation contract (src/repr.rs).                        *)
(*                                                                         *)
(* The reader is a recursive descent over a byte source.  It is modelled   *)
(* as a machine with an explicit call stack: one frame per active call of  *)
(* read_tag_body, one action per arm (or loop iteration) of its match.     *)
(* The byte source is supplied on demand: every action that reads draws    *)
(* the bytes it is about to read from a small alphabet, or finds the       *)
(* source exhausted.  `stream` is the sequence of bytes read so far, so    *)
(* the cursor of the source is Len(stream).                                *)
(***************************************************************************)
EXTENDS Integers, Sequences, FiniteSets, TLC

\* ------------------------------------------------------------------ bounds

\* Longest byte source explored.
MaxBytes == 18
\* Longest byte source explored for termination.
MaxLiveBytes == 15
\* Largest non-negative declared array / list length drawn.
MaxCount == 2
\* Longest chain of error conversions explored (repr.rs).
MaxConv == 8

\* ------------------------------------------------------- program constants

TagCompound == 10
MaxTagId == 12

VARIABLES
    limit,       \* the source holds at most this many bytes
    stream,      \* bytes read from the source so far (cursor = Len(stream))
    pc,          \* position in read_nbt_uncompressed
    stack,       \* active read_tag_body calls, innermost last
    ret,         \* <<r>>: the value read_tag_body has just returned; <<>>: none
    root_name,   \* <<name>> once read
    out,         \* <<compound, name>> once read_nbt_uncompressed returned Ok
    result,      \* "running", "Ok", "InvalidData", "UnexpectedEof", "panic"
    reprVal,     \* repr.rs: the error value being converted
    reprOrigin,  \* repr.rs: the structural kind the chain started from
    reprLog      \* repr.rs: the conversions applied so far

vars ==
    <<limit, stream, pc, stack, ret, root_name, out, result, reprVal, reprOrigin, reprLog>>
readerVars == <<limit, stream, pc, stack, ret, root_name, out, result>>
reprVars == <<reprVal, reprOrigin, reprLog>>

\* ------------------------------------------------------------ byte source

Avail(s, p, n) == p + n <= Len(s)

Slice(s, p, n) == SubSeq(s, p + 1, p + n)

RECURSIVE be_shift(_, _)
be_shift(v, bs) == IF bs = <<>> THEN v ELSE be_shift(v * 256 + Head(bs), Tail(bs))

\* byteorder::BigEndian on an unsigned integer: most significant byte first.
be_unsigned(bs) == be_shift(0, bs)

\* byteorder::BigEndian on a signed integer (two's complement): the first
\* byte carries the sign.
be_signed(bs) ==
    be_shift(IF Head(bs) >= 128 THEN Head(bs) - 256 ELSE Head(bs), Tail(bs))

\* `x as usize` for an i32 x on a 64-bit target: sign extension.  The value is
\* ext * (2^64 - 2^31) + low, with low < 2^31; ext = 1 only for a negative x.
as_usize(x) ==
    IF x < 0 THEN [ext |-> 1, low |-> (x + 2147483647) + 1]
    ELSE [ext |-> 0, low |-> x]

UsizeZero == [ext |-> 0, low |-> 0]

\* i < len for a small index i and a usize len (the bound of `for i in 0 .. len`).
IndexBelow(i, len) == len.ext = 1 \/ i < len.low

\* Whether a buffer of `len` elements of at least one byte each exceeds
\* isize::MAX bytes, which makes Vec's allocation panic ("capacity overflow").
CapacityOverflow(len) == len.ext = 1

\* cesu8::from_java_cesu8 on the one- and two-byte forms: the bytes are taken
\* as they are when they are valid UTF-8, otherwise decoded as Java's modified
\* UTF-8, where C0 80 stands for U+0000.  A lead byte of F8..FF (and any form
\* the inputs never hold) is an encoding error.  Result: <<TRUE, code points>>
\* or <<FALSE, <<>> >>.
RECURSIVE cesu8_decode(_)
cesu8_decode(bs) ==
    IF bs = <<>> THEN <<TRUE, <<>> >>
    ELSE LET b == Head(bs) IN
         IF b < 128
         THEN LET r == cesu8_decode(Tail(bs)) IN
              IF r[1] THEN <<TRUE, <<b>> \o r[2]>> ELSE r
         ELSE IF b >= 192 /\ b <= 223 /\ Len(bs) >= 2 /\ bs[2] >= 128 /\ bs[2] <= 191
         THEN LET cp == (b - 192) * 64 + (bs[2] - 128)
                  r == cesu8_decode(SubSeq(bs, 3, Len(bs)))
              IN IF (cp >= 128 \/ cp = 0) /\ r[1]
                 THEN <<TRUE, <<cp>> \o r[2]>>
                 ELSE <<FALSE, <<>> >>
         ELSE <<FALSE, <<>> >>

from_java_cesu8(bs) == cesu8_decode(bs)

\* read_string on source s at cursor p: [k, v, p].
read_string(s, p) ==
    IF ~Avail(s, p, 2) THEN [k |-> "UnexpectedEof", v |-> <<>>, p |-> Len(s)]
    ELSE LET len == be_unsigned(Slice(s, p, 2)) IN
         IF ~Avail(s, p + 2, len) THEN [k |-> "UnexpectedEof", v |-> <<>>, p |-> Len(s)]
         ELSE LET d == from_java_cesu8(Slice(s, p + 2, len)) IN
              IF d[1] THEN [k |-> "Ok", v |-> d[2], p |-> p + 2 + len]
              ELSE [k |-> "InvalidData", v |-> <<>>, p |-> p + 2 + len]

\* ------------------------------------------------------------------ inputs

\* Type identifier bytes drawn: every defined identifier, the first undefined
\* one, and 0xFF.
IdBytes == (0 .. MaxTagId + 1) \cup {255}

\* Name payloads drawn: empty, "a", and an ill-formed byte.
NamePayloads == {<<>>, <<97>>, <<255>>}

\* String value payloads drawn: empty, a plain NUL, Java's two-byte U+0000,
\* and an ill-formed byte.
StrPayloads == {<<>>, <<0>>, <<192, 128>>, <<255>>}

u16_be(n) == <<n \div 256, n % 256>>

NameChunks == {u16_be(Len(p)) \o p : p \in NamePayloads}

StrChunks == {u16_be(Len(p)) \o p : p \in StrPayloads}

\* Declared lengths drawn: 0 .. MaxCount and -1.
I32Chunks == {<<0, 0, 0, n>> : n \in 0 .. MaxCount} \cup {<<255, 255, 255, 255>>}

\* Fixed-width payloads drawn: 1 in w bytes and, in one byte, -1.
FixedChunks(w) ==
    {[i \in 1 .. w |-> IF i = w THEN 1 ELSE 0]} \cup (IF w = 1 THEN {<<255>>} ELSE {})

ListHeaderChunks == {<<t>> \o l : t \in IdBytes, l \in I32Chunks}

EntryChunks == {<<0>>} \cup {<<t>> \o n : t \in IdBytes \ {0}, n \in NameChunks}

\* What a source may hold where the reader expects one of `chunks`: a whole
\* chunk, or the start of one and then nothing.
Prefixes(chunks) == UNION {{SubSeq(c, 1, k) : k \in 0 .. Len(c)} : c \in chunks}

\* ------------------------------------------------------------------- tags

\* NbtTag, one record shape for all variants: the variant's identifier and
\* its payload in the field of its kind (the other fields stay empty).
\*   n: Byte, Short, Int, Long, and Float, Double as their bit pattern
\*   s: ByteArray, IntArray, LongArray elements; String code points
\*   l: List elements
\*   c: Compound entries, <<name, tag>>, one per name
NbtScalar(id, n) == [id |-> id, n |-> n, s |-> <<>>, l |-> <<>>, c |-> <<>>]

NbtArray(id, s) == [id |-> id, n |-> 0, s |-> s, l |-> <<>>, c |-> <<>>]

NbtListTag(l) == [id |-> 9, n |-> 0, s |-> <<>>, l |-> l, c |-> <<>>]

NbtCompoundTag(c) == [id |-> 10, n |-> 0, s |-> <<>>, l |-> <<>>, c |-> c]

ScalarWidth(id) ==
    CASE id = 1 -> 1 [] id = 2 -> 2 [] id = 3 -> 4
      [] id = 4 -> 8 [] id = 5 -> 4 [] id = 6 -> 8

\* Mutant: the elements of an int array are read two bytes wide.
ElemWidth_ShortInts(id) == CASE id = 7 -> 1 [] id = 11 -> 2 [] id = 12 -> 8

ElemWidth(id) == CASE id = 7 -> 1 [] id = 11 -> 4 [] id = 12 -> 8

\* NbtList::push.
NbtList_push(list, tag) == Append(list, tag)

\* NbtCompound::insert: the entry for `name` is replaced when there is one.
NbtCompound_insert(compound, name, tag) ==
    IF \E i \in DOMAIN compound : compound[i][1] = name
    THEN [i \in DOMAIN compound |->
            IF compound[i][1] = name THEN <<name, tag>> ELSE compound[i]]
    ELSE Append(compound, <<name, tag>>)

\* ----------------------------------------------------------------- frames

\* One call of read_tag_body(source, id) entered with the cursor at `start`,
\* with its locals.  `at` is the cursor where the identifier last read by the
\* call stands.  `entries` (a compound's <<name, tag>>) and `elems` (a list's
\* <<offset, tag>>) list what the call's loop has decoded so far, in the
\* order decoded.
NewFrame(id, start) ==
    [id |-> id, st |-> "body", start |-> start, at |-> start,
     type_id |-> 0, tag_id |-> 0, slen |-> 0, len |-> UsizeZero, i |-> 0,
     array |-> <<>>, list |-> <<>>, compound |-> <<>>,
     name |-> <<>>, entries |-> <<>>, elems |-> <<>>]

Top == stack[Len(stack)]

Pop == SubSeq(stack, 1, Len(stack) - 1)

SetTop(f) == [stack EXCEPT ![Len(stack)] = f]

\* Ok(tag) returned by the call of frame f.
Returned(f, tag) ==
    [id |-> f.id, start |-> f.start, tag |-> tag,
     type_id |-> f.type_id, slen |-> f.slen,
     entries |-> f.entries, elems |-> f.elems]

Running == result = "running"

InBody == Running /\ pc = "root_body" /\ stack # <<>> /\ ret = <<>>

Fits(c) == Len(stream) + Len(c) <= limit

\* The source ended inside a read, or the bytes were not acceptable: the `?`
\* and the `return Err(..)` of the reader end the whole decode.
Fail(kind, s, stk) ==
    /\ stream' = s
    /\ result' = kind
    /\ stack' = stk
    /\ UNCHANGED <<pc, ret, root_name, out>>

\* Ok(tag) from the innermost call: the frame is left, the caller takes over.
Return(s, f, tag) ==
    /\ stream' = s
    /\ stack' = Pop
    /\ ret' = <<Returned(f, tag)>>
    /\ UNCHANGED <<pc, root_name, out, result>>

\* read_tag_body(source, id) is entered from the innermost call, whose locals
\* are now those of f.
Call(s, f, id) ==
    /\ stream' = s
    /\ stack' = Append(SetTop(f), NewFrame(id, Len(s)))
    /\ ret' = <<>>
    /\ UNCHANGED <<pc, root_name, out, result>>

\* ------------------------------------------------- read_nbt_uncompressed

\* Mutant: the root identifier is checked only after the name has been read.
ReadRootId_NameFirst ==
    /\ Running /\ pc = "root_id"
    /\ \E c \in Prefixes({<<t>> \o n : t \in IdBytes, n \in NameChunks}) :
        LET s == stream \o c
            o == read_string(s, Len(stream) + 1)
        IN
        /\ Fits(c)
        /\ IF ~Avail(s, Len(stream), 1) THEN Fail("UnexpectedEof", s, stack)
           ELSE /\ o.p = Len(s)
                /\ IF o.k # "Ok" THEN Fail(o.k, s, stack)
                   ELSE IF s[Len(stream) + 1] # TagCompound THEN Fail("InvalidData", s, stack)
                   ELSE /\ stream' = s
                        /\ root_name' = <<o.v>>
                        /\ pc' = "root_body"
                        /\ stack' = <<NewFrame(TagCompound, Len(s))>>
                        /\ UNCHANGED <<ret, out, result>>
    /\ UNCHANGED <<limit, reprVars>>

\* let root_id = source.read_u8()?; if root_id != 0xA { return Err(..) }
ReadRootId ==
    /\ Running /\ pc = "root_id"
    /\ \E c \in Prefixes({<<t>> : t \in IdBytes}) :
        LET s == stream \o c IN
        /\ Fits(c)
        /\ IF ~Avail(s, Len(stream), 1) THEN Fail("UnexpectedEof", s, stack)
           ELSE IF s[Len(stream) + 1] # TagCompound THEN Fail("InvalidData", s, stack)
           ELSE /\ stream' = s
                /\ pc' = "root_name"
                /\ UNCHANGED <<stack, ret, root_name, out, result>>
    /\ UNCHANGED <<limit, reprVars>>

\* let root_name = read_string(source)?; match read_tag_body(source, 0xA) ..
ReadRootName ==
    /\ Running /\ pc = "root_name"
    /\ \E c \in Prefixes(NameChunks) :
        LET s == stream \o c
            o == read_string(s, Len(stream))
        IN
        /\ Fits(c)
        /\ o.p = Len(s)
        /\ IF o.k # "Ok" THEN Fail(o.k, s, stack)
           ELSE /\ stream' = s
                /\ root_name' = <<o.v>>
                /\ pc' = "root_body"
                /\ stack' = <<NewFrame(TagCompound, Len(s))>>
                /\ UNCHANGED <<ret, out, result>>
    /\ UNCHANGED <<limit, reprVars>>

\* Ok(NbtTag::Compound(compound)) => Ok((compound, root_name))
RootReturn ==
    /\ Running /\ pc = "root_body" /\ stack = <<>> /\ ret # <<>>
    /\ result' = "Ok"
    /\ out' = <<ret[1].tag.c, root_name[1]>>
    /\ UNCHANGED <<stream, pc, stack, ret, root_name>>
    /\ UNCHANGED <<limit, reprVars>>

\* ---------------------------------------------------------- read_tag_body

\* 0x1 ..= 0x6: one fixed-width big-endian value.
ScalarBody ==
    /\ InBody /\ Top.id \in 1 .. 6
    /\ \E c \in Prefixes(FixedChunks(ScalarWidth(Top.id))) :
        LET s == stream \o c
            w == ScalarWidth(Top.id)
        IN
        /\ Fits(c)
        /\ IF ~Avail(s, Len(stream), w) THEN Fail("UnexpectedEof", s, stack)
           ELSE Return(s, Top, NbtScalar(Top.id, be_signed(Slice(s, Len(stream), w))))
    /\ UNCHANGED <<limit, reprVars>>

\* 0x7, 0xB, 0xC: let len = source.read_i32()? as usize; let mut array = vec![0; len];
ArrayLen ==
    /\ InBody /\ Top.id \in {7, 11, 12} /\ Top.st = "body"
    /\ \E c \in Prefixes(I32Chunks) :
        LET s == stream \o c
            slen == be_signed(Slice(s, Len(stream), 4))
            len == as_usize(slen)
            f == [Top EXCEPT !.slen = slen, !.len = len]
        IN
        /\ Fits(c)
        /\ IF ~Avail(s, Len(stream), 4) THEN Fail("UnexpectedEof", s, stack)
           ELSE IF CapacityOverflow(len) THEN Fail("panic", s, SetTop(f))
           ELSE IF ~IndexBelow(0, len) THEN Return(s, f, NbtArray(f.id, <<>>))
           ELSE /\ stream' = s
                /\ stack' = SetTop([f EXCEPT !.st = "elems",
                                             !.array = [j \in 1 .. len.low |-> 0]])
                /\ UNCHANGED <<pc, ret, root_name, out, result>>
    /\ UNCHANGED <<limit, reprVars>>

\* for i in 0 .. len { array[i] = source.read_..()?; }
ArrayElem ==
    /\ InBody /\ Top.id \in {7, 11, 12} /\ Top.st = "elems"
    /\ \E c \in Prefixes(FixedChunks(ElemWidth(Top.id))) :
        LET s == stream \o c
            w == ElemWidth(Top.id)
            f == [Top EXCEPT !.array[Top.i + 1] = be_signed(Slice(s, Len(stream), w)),
                             !.i = Top.i + 1]
        IN
        /\ Fits(c)
        /\ IF ~Avail(s, Len(stream), w) THEN Fail("UnexpectedEof", s, stack)
           ELSE IF IndexBelow(f.i, f.len)
           THEN /\ stream' = s
                /\ stack' = SetTop(f)
                /\ UNCHANGED <<pc, ret, root_name, out, result>>
           ELSE Return(s, f, NbtArray(f.id, f.array))
    /\ UNCHANGED <<limit, reprVars>>

\* 0x8 => NbtTag::String(read_string(source)?)
StringBody ==
    /\ InBody /\ Top.id = 8
    /\ \E c \in Prefixes(StrChunks) :
        LET s == stream \o c
            o == read_string(s, Len(stream))
        IN
        /\ Fits(c)
        /\ o.p = Len(s)
        /\ IF o.k # "Ok" THEN Fail(o.k, s, stack)
           ELSE Return(s, Top, NbtArray(8, o.v))
    /\ UNCHANGED <<limit, reprVars>>

\* Mutant: an end-typed list is not rejected when it declares elements.
ListHeader_NoSentinelCheck ==
    /\ InBody /\ Top.id = 9 /\ Top.st = "body"
    /\ \E c \in Prefixes(ListHeaderChunks) :
        LET s == stream \o c
            p == Len(stream)
            type_id == s[p + 1]
            slen == be_signed(Slice(s, p + 1, 4))
            len == as_usize(slen)
            f0 == [Top EXCEPT !.type_id = type_id]
            f == [f0 EXCEPT !.slen = slen, !.len = len, !.st = "elems"]
        IN
        /\ Fits(c)
        /\ IF ~Avail(s, p, 1) THEN Fail("UnexpectedEof", s, stack)
           ELSE IF ~Avail(s, p + 1, 4) THEN Fail("UnexpectedEof", s, SetTop(f0))
           ELSE IF type_id > MaxTagId THEN Fail("InvalidData", s, SetTop(f))
           ELSE IF ~IndexBelow(0, len) THEN Return(s, f, NbtListTag(<<>>))
           ELSE IF CapacityOverflow(len) THEN Fail("panic", s, SetTop(f))
           ELSE Call(s, f, type_id)
    /\ UNCHANGED <<limit, reprVars>>

\* 0x9: the element type, the length, the two checks, and the first element's
\* call.  NbtList::with_capacity(len) is taken to allocate a Vec of len tags.
ListHeader ==
    /\ InBody /\ Top.id = 9 /\ Top.st = "body"
    /\ \E c \in Prefixes(ListHeaderChunks) :
        LET s == stream \o c
            p == Len(stream)
            type_id == s[p + 1]
            slen == be_signed(Slice(s, p + 1, 4))
            len == as_usize(slen)
            f0 == [Top EXCEPT !.type_id = type_id]
            f == [f0 EXCEPT !.slen = slen, !.len = len, !.st = "elems"]
        IN
        /\ Fits(c)
        /\ IF ~Avail(s, p, 1) THEN Fail("UnexpectedEof", s, stack)
           ELSE IF ~Avail(s, p + 1, 4) THEN Fail("UnexpectedEof", s, SetTop(f0))
           ELSE IF type_id > MaxTagId \/ (type_id = 0 /\ IndexBelow(0, len))
           THEN Fail("InvalidData", s, SetTop(f))
           ELSE IF ~IndexBelow(0, len) THEN Return(s, f, NbtListTag(<<>>))
           ELSE IF CapacityOverflow(len) THEN Fail("panic", s, SetTop(f))
           ELSE Call(s, f, type_id)
    /\ UNCHANGED <<limit, reprVars>>

\* Mutant: the element loop runs once more than the declared length.
ListPush_OneMore ==
    /\ Running /\ pc = "root_body" /\ stack # <<>> /\ ret # <<>>
    /\ Top.id = 9
    /\ LET f == [Top EXCEPT !.list = NbtList_push(Top.list, ret[1].tag),
                            !.elems = Append(Top.elems, <<ret[1].start, ret[1].tag>>),
                            !.i = Top.i + 1]
       IN IF IndexBelow(f.i - 1, f.len)
          THEN Call(stream, f, f.type_id)
          ELSE Return(stream, f, NbtListTag(f.list))
    /\ UNCHANGED <<limit, reprVars>>

\* list.push(read_tag_body(source, type_id)?), then the next element's call
\* or NbtTag::List(list).
ListPush ==
    /\ Running /\ pc = "root_body" /\ stack # <<>> /\ ret # <<>>
    /\ Top.id = 9
    /\ LET f == [Top EXCEPT !.list = NbtList_push(Top.list, ret[1].tag),
                            !.elems = Append(Top.elems, <<ret[1].start, ret[1].tag>>),
                            !.i = Top.i + 1]
       IN IF IndexBelow(f.i, f.len)
          THEN Call(stream, f, f.type_id)
          ELSE Return(stream, f, NbtListTag(f.list))
    /\ UNCHANGED <<limit, reprVars>>

\* Mutant: an exhausted source where an entry's identifier is due is taken
\* for the end marker.
CompoundEntry_EofEndsCompound ==
    /\ InBody /\ Top.id = TagCompound
    /\ \E c \in Prefixes(EntryChunks) :
        LET s == stream \o c
            p == Len(stream)
            tag_id == s[p + 1]
            o == read_string(s, p + 1)
            f0 == [Top EXCEPT !.tag_id = tag_id, !.at = p]
        IN
        /\ Fits(c)
        /\ IF ~Avail(s, p, 1) THEN Return(s, Top, NbtCompoundTag(Top.compound))
           ELSE IF tag_id = 0 THEN Len(c) = 1 /\ Return(s, f0, NbtCompoundTag(f0.compound))
           ELSE /\ o.p = Len(s)
                /\ IF o.k # "Ok" THEN Fail(o.k, s, SetTop(f0))
                   ELSE Call(s, [f0 EXCEPT !.name = o.v], tag_id)
    /\ UNCHANGED <<limit, reprVars>>

\* Mutant: an exhausted source where an entry's identifier is due is read
\* again instead of ending the decode.
CompoundEntry_RetryOnEof ==
    /\ InBody /\ Top.id = TagCompound
    /\ \E c \in Prefixes(EntryChunks) :
        LET s == stream \o c
            p == Len(stream)
            tag_id == s[p + 1]
            o == read_string(s, p + 1)
            f0 == [Top EXCEPT !.tag_id = tag_id, !.at = p]
        IN
        /\ Fits(c)
        /\ IF ~Avail(s, p, 1) THEN UNCHANGED <<stream, pc, stack, ret, root_name, out, result>>
           ELSE IF tag_id = 0 THEN Len(c) = 1 /\ Return(s, f0, NbtCompoundTag(f0.compound))
           ELSE /\ o.p = Len(s)
                /\ IF o.k # "Ok" THEN Fail(o.k, s, SetTop(f0))
                   ELSE Call(s, [f0 EXCEPT !.name = o.v], tag_id)
    /\ UNCHANGED <<limit, reprVars>>

\* 0xA: tag_id = source.read_u8()?; while tag_id != 0x0 { name = read_string()?;
\* tag = read_tag_body(source, tag_id)?; ..
CompoundEntry ==
    /\ InBody /\ Top.id = TagCompound
    /\ \E c \in Prefixes(EntryChunks) :
        LET s == stream \o c
            p == Len(stream)
            tag_id == s[p + 1]
            o == read_string(s, p + 1)
            f0 == [Top EXCEPT !.tag_id = tag_id, !.at = p]
        IN
        /\ Fits(c)
        /\ IF ~Avail(s, p, 1) THEN Fail("UnexpectedEof", s, stack)
           ELSE IF tag_id = 0 THEN Len(c) = 1 /\ Return(s, f0, NbtCompoundTag(f0.compound))
           ELSE /\ o.p = Len(s)
                /\ IF o.k # "Ok" THEN Fail(o.k, s, SetTop(f0))
                   ELSE Call(s, [f0 EXCEPT !.name = o.v], tag_id)
    /\ UNCHANGED <<limit, reprVars>>

\* Mutant: an entry whose name the compound already holds is dropped.
CompoundInsert_KeepFirst ==
    /\ Running /\ pc = "root_body" /\ stack # <<>> /\ ret # <<>>
    /\ Top.id = TagCompound
    /\ stack' = SetTop([Top EXCEPT
                          !.compound =
                              IF \E i \in DOMAIN Top.compound : Top.compound[i][1] = Top.name
                              THEN Top.compound
                              ELSE NbtCompound_insert(Top.compound, Top.name, ret[1].tag),
                          !.entries = Append(Top.entries, <<Top.name, ret[1].tag>>)])
    /\ ret' = <<>>
    /\ UNCHANGED <<stream, pc, root_name, out, result>>
    /\ UNCHANGED <<limit, reprVars>>

\* .. compound.insert(name, tag); and back to the head of the loop.
CompoundInsert ==
    /\ Running /\ pc = "root_body" /\ stack # <<>> /\ ret # <<>>
    /\ Top.id = TagCompound
    /\ stack' = SetTop([Top EXCEPT
                          !.compound = NbtCompound_insert(Top.compound, Top.name, ret[1].tag),
                          !.entries = Append(Top.entries, <<Top.name, ret[1].tag>>)])
    /\ ret' = <<>>
    /\ UNCHANGED <<stream, pc, root_name, out, result>>
    /\ UNCHANGED <<limit, reprVars>>

\* Mutant: an undefined identifier yields an empty value instead of an error.
InvalidTag_EmptyValue ==
    /\ InBody /\ Top.id \notin 1 .. MaxTagId
    /\ Return(stream, Top, NbtArray(Top.id, <<>>))
    /\ UNCHANGED <<limit, reprVars>>

\* _ => return Err(InvalidData, "Invalid tag type encountered.")
InvalidTag ==
    /\ InBody /\ Top.id \notin 1 .. MaxTagId
    /\ Fail("InvalidData", stream, stack)
    /\ UNCHANGED <<limit, reprVars>>

ReaderInit ==
    /\ limit \in {MaxBytes, MaxLiveBytes}
    /\ stream = <<>>
    /\ pc = "root_id"
    /\ stack = <<>>
    /\ ret = <<>>
    /\ root_name = <<>>
    /\ out = <<>>
    /\ result = "running"

ReprIdle ==
    /\ reprVal = <<"TypeMismatch">>
    /\ reprOrigin = "TypeMismatch"
    /\ reprLog = <<>>

Init == ReaderInit /\ limit = MaxBytes /\ ReprIdle

Next ==
    \/ ReadRootId
    \/ ReadRootName
    \/ RootReturn
    \/ ScalarBody
    \/ ArrayLen
    \/ ArrayElem
    \/ StringBody
    \/ ListHeader
    \/ ListPush
    \/ CompoundEntry
    \/ CompoundInsert
    \/ InvalidTag

Spec == Init /\ [][Next]_vars

\* The decode is one uninterrupted call chain: while a step is possible, one
\* is taken.
LiveInit == ReaderInit /\ limit = MaxLiveBytes /\ ReprIdle

LiveSpec == LiveInit /\ [][Next]_vars /\ WF_vars(Next)

\* ---------------------------------------------------------------- repr.rs

\* enum NbtStructureError.  A value of it is <<kind>>; an NbtReprError over
\* E = NbtStructureError is <<"Structure", kind>> or <<"Custom", kind>>.
NbtStructureError == {"TypeMismatch", "InvalidIndex", "MissingTag"}

\* impl<E> From<NbtStructureError> for NbtReprError<E>
ReprFromStructure(x) == <<"Structure", x[1]>>

\* NbtReprError::custom
ReprCustom(x) == <<"Custom", x[1]>>

\* Mutant: the Structure arm answers with a fixed kind.
StructureFromRepr_FixedKind(x) ==
    CASE x[1] = "Structure" -> <<"TypeMismatch">>
      [] x[1] = "Custom" -> <<x[2]>>

\* impl From<NbtReprError<NbtStructureError>> for NbtStructureError
StructureFromRepr(x) ==
    CASE x[1] = "Structure" -> <<x[2]>>
      [] x[1] = "Custom" -> <<x[2]>>

\* A structural error is wrapped on its way out of a conversion.
WrapStructure ==
    /\ Len(reprVal) = 1 /\ Len(reprLog) < MaxConv
    /\ reprVal' = ReprFromStructure(reprVal)
    /\ reprOrigin' = reprVal[1]
    /\ reprLog' = Append(reprLog, "from_structure")
    /\ UNCHANGED readerVars

\* An implementation reports an error of its own, here a structural kind.
WrapCustom ==
    /\ Len(reprVal) = 1 /\ Len(reprLog) < MaxConv
    /\ \E k \in NbtStructureError :
        /\ reprVal' = ReprCustom(<<k>>)
        /\ reprOrigin' = k
    /\ reprLog' = Append(reprLog, "custom")
    /\ UNCHANGED readerVars

\* The caller converts the wrapper back with `?` / into().
Unwrap ==
    /\ Len(reprVal) = 2 /\ Len(reprLog) < MaxConv
    /\ reprVal' = StructureFromRepr(reprVal)
    /\ reprLog' = Append(reprLog, "into_structure")
    /\ UNCHANGED <<reprOrigin>>
    /\ UNCHANGED readerVars

ReprInit ==
    /\ ReaderInit /\ limit = MaxBytes
    /\ \E k \in NbtStructureError : reprVal = <<k>> /\ reprOrigin = k
    /\ reprLog = <<>>

ReprNext == WrapStructure \/ WrapCustom \/ Unwrap

ReprSpec == ReprInit /\ [][ReprNext]_vars

\* ------------------------------------------------ the wire format (spec)

\* Where the one value of type id that starts at offset p of s ends,
\* following the layout of the format alone: the offset after its last byte,
\* Truncated when s ends inside it, Malformed when it is no value of the
\* format (an undefined identifier, a negative length, an end-typed list with
\* elements, an ill-encoded string).
Truncated == -1
Malformed == -2

RECURSIVE WireBody(_, _, _), WireList(_, _, _, _), WireCompound(_, _)

WireFixed(s, p, w) == IF p + w <= Len(s) THEN p + w ELSE Truncated

WireArray(s, p, w) ==
    IF p + 4 > Len(s) THEN Truncated
    ELSE LET n == be_signed(SubSeq(s, p + 1, p + 4)) IN
         IF n < 0 THEN Malformed ELSE WireFixed(s, p + 4, n * w)

WireString(s, p) ==
    IF p + 2 > Len(s) THEN Truncated
    ELSE LET n == s[p + 1] * 256 + s[p + 2] IN
         IF p + 2 + n > Len(s) THEN Truncated
         ELSE IF from_java_cesu8(SubSeq(s, p + 3, p + 2 + n))[1] THEN p + 2 + n
         ELSE Malformed

WireBody(s, p, id) ==
    CASE id \in {1} -> WireFixed(s, p, 1)
      [] id \in {2} -> WireFixed(s, p, 2)
      [] id \in {3, 5} -> WireFixed(s, p, 4)
      [] id \in {4, 6} -> WireFixed(s, p, 8)
      [] id = 7 -> WireArray(s, p, 1)
      [] id = 8 -> WireString(s, p)
      [] id = 9 ->
            IF p + 1 > Len(s) THEN Truncated
            ELSE IF p + 5 > Len(s) THEN Truncated
            ELSE LET t == s[p + 1]
                     n == be_signed(SubSeq(s, p + 2, p + 5))
                 IN IF t > 12 \/ n < 0 \/ (t = 0 /\ n > 0) THEN Malformed
                    ELSE WireList(s, p + 5, t, n)
      [] id = 10 -> WireCompound(s, p)
      [] id = 11 -> WireArray(s, p, 4)
      [] id = 12 -> WireArray(s, p, 8)
      [] OTHER -> Malformed

WireList(s, p, t, n) ==
    IF n = 0 THEN p
    ELSE LET q == WireBody(s, p, t) IN
         IF q < 0 THEN q ELSE WireList(s, q, t, n - 1)

WireCompound(s, p) ==
    IF p + 1 > Len(s) THEN Truncated
    ELSE IF s[p + 1] = 0 THEN p + 1
    ELSE LET q == WireString(s, p + 1) IN
         IF q < 0 THEN q
         ELSE LET r == WireBody(s, q, s[p + 1]) IN
              IF r < 0 THEN r ELSE WireCompound(s, r)

\* The root document: 0x0A, the name, a compound body.
WireRoot(s) ==
    IF Len(s) < 1 THEN Truncated
    ELSE IF s[1] # 10 THEN Malformed
    ELSE LET q == WireString(s, 1) IN
         IF q < 0 THEN q ELSE WireCompound(s, q)

\* ----------------------------------------------------------------- claims

Done == result # "running"

Errors == {"InvalidData", "UnexpectedEof"}

Frames == {stack[i] : i \in DOMAIN stack}

\* C1: when the first byte of the source is not 0x0A, the decode has failed
\* with InvalidData and that byte is the only one read: no root name was read
\* and no body was entered.
C1_RootFramingRejection ==
    (Len(stream) >= 1 /\ stream[1] # 10) =>
        /\ result = "InvalidData"
        /\ Len(stream) = 1
        /\ root_name = <<>>
        /\ stack = <<>>

C1_Witness == stream = <<9>> /\ result = "InvalidData"

\* A type identifier outside 0x00-0x0C has been read: as the root byte, as a
\* list's element type, or as a compound entry's type.
BadIdRead ==
    \/ Len(stream) >= 1 /\ stream[1] > 12
    \/ \E i \in DOMAIN stack : stack[i].id = 9 /\ stack[i].type_id > 12
    \/ \E i \in DOMAIN stack : stack[i].id = 10 /\ stack[i].tag_id > 12

\* C2 as stated: once an identifier outside 0x00-0x0C has been read, the
\* decode ends with InvalidData, whatever follows the identifier.
C2_UnknownIdIsInvalidData ==
    (BadIdRead /\ Done) => result = "InvalidData"

\* The source ended inside what the reader reads between an identifier and
\* its validation: a list's 4-byte length, a compound entry's name.
EndedBeforeValidation ==
    /\ stack # <<>>
    /\ \/ Top.id = 9 /\ Len(stream) < Top.start + 5
       \/ Top.id = 10 /\ read_string(stream, Top.at + 1).k = "UnexpectedEof"

\* C2 (amended): once an identifier outside 0x00-0x0C has been read, the
\* decode never returns a tree and never panics; it fails with InvalidData,
\* except that it fails with UnexpectedEof when the source ends inside the
\* list length or the entry name that the reader reads before it validates
\* the identifier.  While it has not failed yet, the call on the undefined
\* identifier is the innermost one and its only step is the rejection.
C2_UnknownIdFails ==
    BadIdRead =>
        /\ result \in {"running", "InvalidData", "UnexpectedEof"}
        /\ out = <<>>
        /\ result = "running" => (stack # <<>> /\ Top.id > 12 /\ ret = <<>>)
        /\ result = "UnexpectedEof" <=> (Done /\ EndedBeforeValidation)

C2_Witness ==
    /\ result = "InvalidData"
    /\ Len(stack) >= 3
    /\ Top.id = 255
    /\ stack[Len(stack) - 1].id = 10

\* C3: an array body (0x7, 0xB, 0xC) whose declared length is negative makes
\* the decode fail with an error, without the buffer allocation being tried.
C3_NegativeArrayLengthFailsFast ==
    (stack # <<>> /\ Top.id \in {7, 11, 12} /\ Top.slen < 0) => result \in Errors

\* C4: a list body with element type 0x00 and length 0 returns the empty list
\* (having read exactly its five header bytes); with element type 0x00 and
\* any other length it fails with InvalidData right after the header, before
\* any element is decoded.
C4_ListSentinelRule ==
    /\ \A i \in DOMAIN stack :
         (stack[i].id = 9 /\ stack[i].st = "elems" /\ stack[i].type_id = 0) =>
            /\ i = Len(stack)
            /\ result = "InvalidData"
            /\ stack[i].slen # 0
            /\ stack[i].list = <<>>
            /\ Len(stream) = stack[i].start + 5
    /\ (ret # <<>> /\ ret[1].id = 9 /\ ret[1].type_id = 0) =>
            /\ ret[1].slen = 0
            /\ ret[1].tag = NbtListTag(<<>>)
            /\ Len(stream) = ret[1].start + 5
            /\ Running

C4_Witness ==
    /\ ret # <<>> /\ ret[1].id = 9 /\ ret[1].type_id = 0
    /\ stack # <<>> /\ Top.id = 9

\* C5: when the decode has ended on a source that stops inside the document
\* it holds (inside a declared string, array or list, or before a compound's
\* end marker), it has ended with UnexpectedEof and has returned no tree.
C5_TruncatedIsEof ==
    (Done /\ WireRoot(stream) = Truncated) =>
        /\ result = "UnexpectedEof"
        /\ out = <<>>

C5_Witness ==
    /\ result = "UnexpectedEof"
    /\ WireRoot(stream) = Truncated
    /\ \E f \in Frames : f.id = 9 /\ f.slen = 2 /\ f.i = 1

\* C6: whenever read_tag_body(source, id) returns Ok, the bytes it has read,
\* from the cursor it was entered with to the cursor now, are exactly one
\* value of type id in the layout of the format.
C6_BodyConsumesExactlyOneValue ==
    ret # <<>> => WireBody(stream, ret[1].start, ret[1].id) = Len(stream)

\* A sibling decoded right after a non-empty list.
C6_Witness ==
    /\ ret # <<>> /\ ret[1].id = 1
    /\ stack # <<>> /\ Top.id = 10
    /\ Len(Top.entries) = 1
    /\ Top.entries[1][2].id = 9
    /\ Top.entries[1][2].l # <<>>

\* The names a compound's entries carry on the wire, after decoding.
EntryNames(entries) == {entries[i][1] : i \in DOMAIN entries}

LastEntry(entries, n) ==
    entries[CHOOSE i \in DOMAIN entries :
              /\ entries[i][1] = n
              /\ \A j \in DOMAIN entries : entries[j][1] = n => j <= i][2]

LastWriteWins(compound, entries) ==
    /\ EntryNames(compound) = EntryNames(entries)
    /\ \A i, j \in DOMAIN compound : compound[i][1] = compound[j][1] => i = j
    /\ \A i \in DOMAIN compound : compound[i][2] = LastEntry(entries, compound[i][1])

\* C7: a compound, while it is decoded and when it is returned, holds exactly
\* one entry per name read, and the value under a name is that of the last
\* entry read with that name.
C7_DuplicateKeysLastWins ==
    /\ \A f \in Frames : f.id = 10 => LastWriteWins(f.compound, f.entries)
    /\ (ret # <<>> /\ ret[1].id = 10) => LastWriteWins(ret[1].tag.c, ret[1].entries)

C7_Witness ==
    /\ ret # <<>> /\ ret[1].id = 10
    /\ Len(ret[1].entries) = 3
    /\ ret[1].entries[1][1] = ret[1].entries[3][1]
    /\ ret[1].entries[2][1] # ret[1].entries[1][1]
    /\ ret[1].entries[1][2].id = 1 /\ ret[1].entries[3][2].id = 1
    /\ ret[1].entries[1][2].n # ret[1].entries[3][2].n

\* C8: on a finite source the decode, and with it every compound entry loop,
\* comes to an end.
C8_DecodeTerminates == <>Done

\* A compound loop ended by the exhaustion of the source after two entries.
C8_Witness ==
    /\ result = "UnexpectedEof"
    /\ Len(stack) = 1
    /\ Len(stack[1].entries) >= 2

RECURSIVE Homogeneous(_)
\* Every list of the tree holds elements of one variant only.
Homogeneous(tag) ==
    CASE tag.id = 9 ->
            \A i \in DOMAIN tag.l : tag.l[i].id = tag.l[1].id /\ Homogeneous(tag.l[i])
      [] tag.id = 10 -> \A i \in DOMAIN tag.c : Homogeneous(tag.c[i][2])
      [] OTHER -> TRUE

\* C9: a list returned with declared length n > 0 and element type t holds
\* exactly n elements, each of the variant t, in the order their bodies stand
\* in the source; every list of a returned tree holds one variant only.
C9_ListElements ==
    /\ (ret # <<>> /\ ret[1].id = 9 /\ ret[1].slen > 0) =>
          LET r == ret[1] IN
          /\ r.type_id \in 1 .. 12
          /\ Len(r.tag.l) = r.slen
          /\ Len(r.elems) = r.slen
          /\ \A i \in 1 .. r.slen :
                /\ r.tag.l[i].id = r.type_id
                /\ r.tag.l[i] = r.elems[i][2]
                /\ i > 1 => r.elems[i - 1][1] < r.elems[i][1]
    /\ result = "Ok" => Homogeneous(NbtCompoundTag(out[1]))

\* A list of two elements returned inside another list.
C9_Witness ==
    /\ ret # <<>> /\ ret[1].id = 9 /\ ret[1].slen = 2
    /\ stack # <<>> /\ Top.id = 9

\* C10: wrapping a structural kind gives the Structure variant carrying that
\* kind, and converting that wrapper back gives the kind it was made from.
C10_WrapUnwrapIdentity ==
    LET n == Len(reprLog) IN
    /\ (n >= 1 /\ reprLog[n] = "from_structure") =>
          reprVal = <<"Structure", reprOrigin>>
    /\ (n >= 2 /\ reprLog[n] = "into_structure" /\ reprLog[n - 1] = "from_structure") =>
          reprVal = <<reprOrigin>>

C10_Witness ==
    /\ Len(reprLog) = 2
    /\ reprLog = <<"from_structure", "into_structure">>
    /\ reprVal = <<"MissingTag">>

====
